---- MODULE Spec2Model ----
(***************************************************************************)
(* The question-answering pipeline of agentic-rag-aws: the LangGraph       *)
(* pipeline of app/graph.py (run_qa) and the inline pipeline of the /ask   *)
(* handler of app/main.py.  One request is followed from its arrival to    *)
(* the value (or exception) its caller receives.  The three collaborators  *)
(* (embed_texts, retrieve_by_embedding, generate_text) are external: each  *)
(* call either raises or returns a value drawn from a bounded set.         *)
(*                                                                         *)
(* Distances are fixed-point numbers: the integer d stands for d / Scale,  *)
(* so Scale is the distance 1.0 and 2 * Scale the distance 2.0.            *)
(* A hit is the record {doc_uri, dist} of retrieve_by_embedding; its chunk *)
(* text and meta only flow into the prompt handed to the generator, whose  *)
(* reply is unconstrained, and are left out.                               *)
(***************************************************************************)
EXTENDS Integers, Sequences, FiniteSets, TLC

\* ---- bounds of the model
MaxHits == 3        \* most rows the vector index returns
Scale == 2          \* fixed-point units per 1.0 of cosine distance
MaxMinHits == 3     \* largest min_hits knob
MaxCtx == 3         \* largest doc_ctx_chunks knob
MaxTextLen == 2     \* longest generator reply, in characters

\* ---- program constants
DefaultK == 6       \* payload.get("k", 6)
MinCoarseK == 12    \* max(k, 12)
MinCtx == 2         \* max(2, doc_ctx_chunks)

Docs == {"A", "B"}
Dists == 0 .. 2 * Scale
Chars == {" ", "a"}
\* Python's None, as a value no collaborator returns
None == <<"None">>

\* the 1.0 of doc_min.get(d, 1.0), h.get("dist", 1.0), state.get("best_dist", 1.0)
\* and min(..., default=1.0)
DefaultDist == Scale

\* the fixed abstain message, a text of one token that is no character
ABSTAIN_MSG == <<"I don't know that yet based on the current knowledge base.">>

Max(a, b) == IF a >= b THEN a ELSE b
Min(a, b) == IF a <= b THEN a ELSE b
Range(s) == {s[i] : i \in DOMAIN s}

\* ---- Python dicts: a function whose DOMAIN is the set of keys present
EmptyDict == [x \in {} |-> None]
Get(d, key, default) == IF key \in DOMAIN d THEN d[key] ELSE default
Put(d, key, val) == (key :> val) @@ d
Update(d, e) == e @@ d

\* ---- Python strings: sequences of characters
Texts == UNION {[1 .. n -> Chars] : n \in 0 .. MaxTextLen}

RECURSIVE lstrip(_)
lstrip(s) == IF s # <<>> /\ Head(s) = " " THEN lstrip(Tail(s)) ELSE s

RECURSIVE rstrip(_)
rstrip(s) ==
  IF s # <<>> /\ s[Len(s)] = " " THEN rstrip(SubSeq(s, 1, Len(s) - 1)) ELSE s

\* the trimming of the leading whitespace only
strip_leading_only(s) == lstrip(s)

strip(s) == rstrip(lstrip(s))

\* x or "" : None and the empty string are falsy
OrEmpty(x) == IF x = None \/ x = <<>> THEN <<>> ELSE x

\* ---- rows of retrieve_by_embedding: ORDER BY dist, LIMIT k
Hit == [doc_uri : Docs, dist : Dists]

IsSortedByDist(s) == \A i \in 1 .. Len(s) - 1 : s[i].dist <= s[i + 1].dist

HitSeqs(k) ==
  {s \in UNION {[1 .. n -> Hit] : n \in 0 .. Min(MaxHits, k)} : IsSortedByDist(s)}

\* ---- document selection (graph.py 50-57, main.py 54-60)

\* Counter(h["doc_uri"] for h in hits)
doc_counts(hits) ==
  [d \in {hits[i].doc_uri : i \in DOMAIN hits} |->
     Cardinality({i \in DOMAIN hits : hits[i].doc_uri = d})]

\* for h in hits: doc_min[d] = min(doc_min.get(d, 1.0), float(h.get("dist", 1.0)))
RECURSIVE doc_min_upto(_, _)
doc_min_upto(hits, n) ==
  IF n = 0 THEN EmptyDict
  ELSE LET m == doc_min_upto(hits, n - 1)
           d == hits[n].doc_uri
       IN  Put(m, d, Min(Get(m, d, DefaultDist), hits[n].dist))

doc_min(hits) == doc_min_upto(hits, Len(hits))

\* doc_min.keys(): the keys in insertion order
RECURSIVE keys_upto(_, _)
keys_upto(hits, n) ==
  IF n = 0 THEN <<>>
  ELSE LET ks == keys_upto(hits, n - 1)
           d == hits[n].doc_uri
       IN  IF d \in Range(ks) THEN ks ELSE Append(ks, d)

doc_keys(hits) == keys_upto(hits, Len(hits))

\* the key (doc_min[d], -doc_counts[d]), compared as Python compares tuples
KeyLess(dm, dc, a, b) ==
  \/ dm[a] < dm[b]
  \/ dm[a] = dm[b] /\ (0 - dc[a]) < (0 - dc[b])

\* a minimum that keeps the last of the smallest keys rather than the first
RECURSIVE py_min_keeping_last(_, _, _, _)
py_min_keeping_last(ks, dm, dc, n) ==
  IF n = 1 THEN ks[1]
  ELSE LET best == py_min_keeping_last(ks, dm, dc, n - 1)
       IN  IF KeyLess(dm, dc, best, ks[n]) THEN best ELSE ks[n]

\* min(keys, key=...): the first key that no later key is strictly below
RECURSIVE py_min(_, _, _, _)
py_min(ks, dm, dc, n) ==
  IF n = 1 THEN ks[1]
  ELSE LET best == py_min(ks, dm, dc, n - 1)
       IN  IF KeyLess(dm, dc, ks[n], best) THEN ks[n] ELSE best

select_best_doc(hits) ==
  py_min(doc_keys(hits), doc_min(hits), doc_counts(hits), Len(doc_keys(hits)))

\* ---- narrowing (graph.py 59-63, main.py 62-66)

\* sorted(xs, key=lambda h: h["dist"]): stable insertion sort
RECURSIVE insert_by_dist(_, _)
insert_by_dist(s, h) ==
  IF s = <<>> THEN <<h>>
  ELSE IF s[Len(s)].dist <= h.dist THEN Append(s, h)
  ELSE Append(insert_by_dist(SubSeq(s, 1, Len(s) - 1), h), s[Len(s)])

RECURSIVE sorted_by_dist(_)
sorted_by_dist(s) ==
  IF s = <<>> THEN <<>>
  ELSE insert_by_dist(sorted_by_dist(SubSeq(s, 1, Len(s) - 1)), s[Len(s)])

\* the narrowing without its filter: every coarse hit is kept
hits_of_doc_unfiltered(hits, doc) == hits

\* [h for h in hits if h["doc_uri"] == best_doc]
hits_of_doc(hits, doc) == SelectSeq(hits, LAMBDA h : h.doc_uri = doc)

\* the slice starting one entry late: xs[1:n+1]
Take_skipping_first(s, n) == SubSeq(s, 2, Min(Len(s), n + 1))

\* xs[:n] for n >= 0
Take(s, n) == SubSeq(s, 1, Min(Len(s), n))

\* the narrowing padded to two entries by repeating the closest one
narrow_padded(hits, best_doc, ctx) ==
  LET s == Take(sorted_by_dist(hits_of_doc(hits, best_doc)), Max(MinCtx, ctx))
  IN  IF s # <<>> /\ Len(s) < MinCtx THEN Append(s, s[1]) ELSE s

\* the narrowing truncated to doc_ctx_chunks itself, without the floor of 2
narrow_no_floor(hits, best_doc, ctx) ==
  Take(sorted_by_dist(hits_of_doc(hits, best_doc)), ctx)

\* the narrowing without the truncation: every hit of the chosen document
narrow_untruncated(hits, best_doc, ctx) ==
  sorted_by_dist(hits_of_doc(hits, best_doc))

narrow(hits, best_doc, ctx) ==
  Take(sorted_by_dist(hits_of_doc(hits, best_doc)), Max(MinCtx, ctx))

\* min((float(h.get("dist", 1.0)) for h in doc_hits), default=1.0)
min_dist(hs) ==
  IF hs = <<>> THEN DefaultDist
  ELSE CHOOSE m \in {hs[i].dist : i \in DOMAIN hs} :
         \A i \in DOMAIN hs : m <= hs[i].dist

\* the gate reading the distance as a similarity: a small one abstains
gate_abstains_similarity(best_dist, max_cosine_dist, n_doc_hits, min_hits) ==
  best_dist < max_cosine_dist \/ n_doc_hits < min_hits

\* the gate with >= for >: a distance on the threshold abstains
gate_abstains_strict(best_dist, max_cosine_dist, n_doc_hits, min_hits) ==
  best_dist >= max_cosine_dist \/ n_doc_hits < min_hits

\* ---- the gate (graph.py 67-70, main.py 67)
gate_abstains(best_dist, max_cosine_dist, n_doc_hits, min_hits) ==
  best_dist > max_cosine_dist \/ n_doc_hits < min_hits

\* ---- the request
VARIABLES
  impl,       \* which pipeline serves the request: "run_qa" or "ask"
  q,          \* the question text handed in
  k,          \* the requested result count
  knobs,      \* max_cosine_dist, min_hits, doc_ctx_chunks
  pc,         \* the stage about to run
  state,      \* the QAState dict of run_qa / the local variables of ask
  calls,      \* how often each collaborator has been called
  raised,     \* the exception raised inside the pipeline, "none" if none
  response,   \* what the caller of the pipeline receives
  stages,     \* the stages entered so far, in order
  generated   \* what generate_text returned to this request, if it did

\* the variables of the other specifications of this module
VARIABLES
  reqs,       \* concurrent run_qa invocations, each with its own QAState
  docs,       \* the rows of table docs
  doc_chunks, \* the rows of table doc_chunks
  next_id,    \* the next value of the two BIGSERIAL sequences
  outcome,    \* what the last upsert_doc_and_chunks call gave its caller
  latest,     \* per doc_uri, the arguments of its last successful upsert
  sqs         \* one invocation of the ingest handler on an SQS batch

aux == <<reqs, docs, doc_chunks, next_id, outcome, latest, sqs>>

vars ==
  <<impl, q, k, knobs, pc, state, calls, raised, response, stages, generated, aux>>

Impls == {"run_qa", "ask"}
Questions == {<<" ">>, <<"a", " ">>}
Ks == {DefaultK}
Knobs ==
  [max_cosine_dist : Dists, min_hits : 0 .. MaxMinHits, doc_ctx_chunks : 1 .. MaxCtx]

\* what generate_text hands back when it returns
GenReplies == Texts \cup {None}

NoResponse == [kind |-> "none"]
\* generate_text has not returned
NotCalled == <<"not called">>

\* the other specifications' variables while this one runs
ConcIdle == reqs = <<>>
DbIdle ==
  /\ docs = {}
  /\ doc_chunks = {}
  /\ next_id = [docs |-> 1, doc_chunks |-> 1]
  /\ outcome = NoResponse
  /\ latest = EmptyDict
SqsIdle == sqs = [pc |-> "idle"]
AuxIdle == ConcIdle /\ DbIdle /\ SqsIdle

Init ==
  /\ AuxIdle
  /\ generated = NotCalled
  /\ impl \in Impls
  /\ q \in Questions
  /\ k \in Ks
  /\ knobs \in Knobs
  /\ pc = "start"
  /\ state = EmptyDict
  /\ calls = [embed |-> 0, retrieve |-> 0, generate |-> 0]
  /\ raised = "none"
  /\ response = NoResponse
  /\ stages = <<>>

Called(c) == [calls EXCEPT ![c] = @ + 1]

\* ======================= app/graph.py =======================

\* an exception leaving qa_graph.invoke leaves run_qa unhandled
Raise(e) ==
  /\ raised' = e
  /\ response' = [kind |-> "raise", exc |-> e]
  /\ pc' = "done"

\* run_qa, lines 135-141: build the state and invoke the graph at its entry point
run_qa_invoke ==
  /\ impl = "run_qa" /\ pc = "start"
  /\ state' = [q |-> q, k |-> k,
               max_cosine_dist |-> knobs.max_cosine_dist,
               min_hits |-> knobs.min_hits,
               doc_ctx_chunks |-> knobs.doc_ctx_chunks]
  /\ pc' = "embed"
  /\ UNCHANGED <<aux, generated, impl, q, k, knobs, calls, raised, response, stages>>

embed_node ==
  /\ impl = "run_qa" /\ pc = "embed"
  /\ stages' = Append(stages, "embed")
  /\ calls' = Called("embed")
  /\ \/ /\ state' = Put(Put(state, "query_emb", "emb"),
                        "coarse_k", Max(Get(state, "k", DefaultK), MinCoarseK))
        /\ pc' = "retrieve"
        /\ UNCHANGED <<raised, response>>
     \/ /\ Raise("EmbeddingError")
        /\ UNCHANGED state
  /\ UNCHANGED <<aux, generated, impl, q, k, knobs>>

retrieve_node ==
  /\ impl = "run_qa" /\ pc = "retrieve"
  /\ stages' = Append(stages, "retrieve")
  /\ calls' = Called("retrieve")
  /\ \/ /\ \E hs \in HitSeqs(state.coarse_k) : state' = Put(state, "coarse_hits", hs)
        /\ pc' = "select_doc"
        /\ UNCHANGED <<raised, response>>
     \/ /\ Raise("RetrievalError")
        /\ UNCHANGED state
  /\ UNCHANGED <<aux, generated, impl, q, k, knobs>>

\* the select stage narrowing coarse_hits itself, in place
select_doc_state_inplace(st) ==
  LET hits == Get(st, "coarse_hits", <<>>) IN
  IF hits = <<>>
  THEN Put(Put(st, "abstain", TRUE), "debug", [reason |-> "no_hits"])
  ELSE LET best_doc == select_best_doc(hits)
           doc_hits == narrow(hits, best_doc, Get(st, "doc_ctx_chunks", 4))
       IN  Put(Put(Put(Put(st, "best_doc", best_doc), "doc_hits", doc_hits),
                   "best_dist", min_dist(doc_hits)), "coarse_hits", doc_hits)

\* lines 44-64 as a function of the state
select_doc_state(st) ==
  LET hits == Get(st, "coarse_hits", <<>>) IN
  IF hits = <<>>
  THEN Put(Put(st, "abstain", TRUE), "debug", [reason |-> "no_hits"])
  ELSE LET best_doc == select_best_doc(hits)
           doc_hits == narrow(hits, best_doc, Get(st, "doc_ctx_chunks", 4))
       IN  Put(Put(Put(st, "best_doc", best_doc), "doc_hits", doc_hits),
               "best_dist", min_dist(doc_hits))

select_doc_node ==
  /\ impl = "run_qa" /\ pc = "select_doc"
  /\ stages' = Append(stages, "select_doc")
  /\ state' = select_doc_state(state)
  /\ pc' = "gate"
  /\ UNCHANGED <<aux, generated, impl, q, k, knobs, calls, raised, response>>

\* lines 67-73; run_qa always sets max_cosine_dist and min_hits
gate_state(st) ==
  Put(st, "abstain",
      gate_abstains(Get(st, "best_dist", DefaultDist), st.max_cosine_dist,
                    Len(Get(st, "doc_hits", <<>>)), st.min_hits))

\* the conditional edge of line 125
gate_route(st) == IF ~Get(st, "abstain", FALSE) THEN "reason" ELSE "abstain_out"

gate_node ==
  /\ impl = "run_qa" /\ pc = "gate"
  /\ stages' = Append(stages, "gate")
  /\ state' = gate_state(state)
  /\ pc' = gate_route(state')
  /\ UNCHANGED <<aux, generated, impl, q, k, knobs, calls, raised, response>>

unique_docs(hits) == Cardinality({hits[i].doc_uri : i \in DOMAIN hits})

\* the reasoning stage citing the document of the top coarse hit
reason_state_citing_top_hit(st, reply) ==
  Update(st,
    [answer |-> strip(OrEmpty(reply)),
     citations |-> <<[doc_uri |-> st.coarse_hits[1].doc_uri]>>,
     debug |-> [best_dist |-> Get(st, "best_dist", None),
                hits |-> Len(Get(st, "coarse_hits", <<>>)),
                unique_docs |-> unique_docs(Get(st, "coarse_hits", <<>>)),
                selected_doc |-> Get(st, "best_doc", None),
                chunks_used |-> Len(Get(st, "doc_hits", <<>>))]])

\* lines 87-96, given the generator's reply
reason_state(st, reply) ==
  Update(st,
    [answer |-> strip(OrEmpty(reply)),
     citations |-> <<[doc_uri |-> st.best_doc]>>,
     debug |-> [best_dist |-> Get(st, "best_dist", None),
                hits |-> Len(Get(st, "coarse_hits", <<>>)),
                unique_docs |-> unique_docs(Get(st, "coarse_hits", <<>>)),
                selected_doc |-> Get(st, "best_doc", None),
                chunks_used |-> Len(Get(st, "doc_hits", <<>>))]])

\* the reasoning stage asking the generator a second time after an empty reply
reason_node_retry ==
  /\ impl = "run_qa" /\ pc = "reason"
  /\ stages' = Append(stages, "reason")
  /\ "doc_hits" \in DOMAIN state
  /\ \E first \in GenReplies, reply \in GenReplies :
       /\ calls' = IF OrEmpty(first) = <<>>
                   THEN [calls EXCEPT !.generate = @ + 2]
                   ELSE Called("generate")
       /\ generated' = (IF OrEmpty(first) = <<>> THEN reply ELSE first)
       /\ state' = reason_state(state, generated')
  /\ pc' = "end"
  /\ UNCHANGED <<aux, impl, q, k, knobs, raised, response>>

reason_node ==
  /\ impl = "run_qa" /\ pc = "reason"
  /\ stages' = Append(stages, "reason")
  /\ \/ \* line 77: state["doc_hits"] of a state that has no such key
        /\ "doc_hits" \notin DOMAIN state
        /\ Raise("KeyError")
        /\ UNCHANGED <<state, calls, generated>>
     \/ /\ "doc_hits" \in DOMAIN state
        /\ calls' = Called("generate")
        /\ \/ /\ \E reply \in GenReplies :
                   /\ generated' = reply
                   /\ state' = reason_state(state, reply)
              /\ pc' = "end"
              /\ UNCHANGED <<raised, response>>
           \/ /\ Raise("GenerationError")
              /\ UNCHANGED <<state, generated>>
  /\ UNCHANGED <<aux, impl, q, k, knobs>>

\* the abstain branch citing the selected document
abstain_out_state_citing(st) ==
  Update(st,
    [answer |-> ABSTAIN_MSG,
     citations |-> <<[doc_uri |-> Get(st, "best_doc", None)]>>,
     debug |-> Get(st, "debug", EmptyDict)])

\* lines 100-107
abstain_out_state(st) ==
  Update(st,
    [answer |-> ABSTAIN_MSG,
     citations |-> <<>>,
     debug |-> Update(Get(st, "debug", EmptyDict),
                      [best_dist |-> Get(st, "best_dist", None),
                       hits |-> Len(Get(st, "coarse_hits", <<>>)),
                       selected_doc |-> Get(st, "best_doc", None)])])

abstain_out_node ==
  /\ impl = "run_qa" /\ pc = "abstain_out"
  /\ stages' = Append(stages, "abstain_out")
  /\ state' = abstain_out_state(state)
  /\ pc' = "end"
  /\ UNCHANGED <<aux, generated, impl, q, k, knobs, calls, raised, response>>

\* line 142: what run_qa hands back
run_qa_result(out) ==
  [answer |-> out.answer, citations |-> out.citations,
   debug |-> Get(out, "debug", EmptyDict)]

run_qa_return ==
  /\ impl = "run_qa" /\ pc = "end"
  /\ response' = [kind |-> "return", body |-> run_qa_result(state)]
  /\ pc' = "done"
  /\ UNCHANGED <<aux, generated, impl, q, k, knobs, state, calls, raised, stages>>

\* ======================= app/main.py =======================

\* the handler falling back to an abstaining answer when a call fails
ask_error_response_fallback(e) ==
  [kind |-> "http", status |-> 200,
   body |-> [answer |-> ABSTAIN_MSG, citations |-> <<>>, abstained |-> TRUE,
             debug |-> [reason |-> e]]]

\* lines 109-111: the handler turns any exception into a 500 carrying str(e)
ask_error_response(e) == [kind |-> "http", status |-> 500, body |-> [detail |-> e]]

Catch(e) ==
  /\ raised' = e
  /\ response' = ask_error_response(e)
  /\ pc' = "done"

\* lines 29-38: read the payload and the knobs
ask_begin ==
  /\ impl = "ask" /\ pc = "start"
  /\ IF strip(q) = <<>>
     THEN /\ response' = [kind |-> "http", status |-> 400,
                          body |-> [error |-> "Missing 'q' in body"]]
          /\ pc' = "done"
          /\ UNCHANGED state
     ELSE /\ state' = [q |-> strip(q), k |-> k,
                       max_cosine_dist |-> knobs.max_cosine_dist,
                       min_hits |-> knobs.min_hits,
                       coarse_k |-> Max(k, MinCoarseK),
                       doc_ctx_chunks |-> knobs.doc_ctx_chunks]
          /\ pc' = "embed"
          /\ UNCHANGED response
  /\ UNCHANGED <<aux, generated, impl, q, k, knobs, calls, raised, stages>>

\* line 41
ask_embed ==
  /\ impl = "ask" /\ pc = "embed"
  /\ stages' = Append(stages, "embed")
  /\ calls' = Called("embed")
  /\ \/ /\ state' = Put(state, "emb", "emb")
        /\ pc' = "retrieve"
        /\ UNCHANGED <<raised, response>>
     \/ /\ Catch("EmbeddingError")
        /\ UNCHANGED state
  /\ UNCHANGED <<aux, generated, impl, q, k, knobs>>

\* lines 47-51
ask_no_hits_response ==
  [kind |-> "http", status |-> 200,
   body |-> [answer |-> ABSTAIN_MSG, citations |-> <<>>, abstained |-> TRUE,
             debug |-> [reason |-> "no_hits"]]]

\* lines 44-51
ask_retrieve ==
  /\ impl = "ask" /\ pc = "retrieve"
  /\ calls' = Called("retrieve")
  /\ \/ \E hs \in HitSeqs(state.coarse_k) :
          /\ state' = Put(state, "coarse_hits", hs)
          /\ IF hs = <<>>
             THEN /\ stages' = stages \o <<"retrieve", "abstain_out">>
                  /\ response' = ask_no_hits_response
                  /\ pc' = "done"
             ELSE /\ stages' = Append(stages, "retrieve")
                  /\ pc' = "select_doc"
                  /\ UNCHANGED response
          /\ UNCHANGED raised
     \/ /\ stages' = Append(stages, "retrieve")
        /\ Catch("RetrievalError")
        /\ UNCHANGED state
  /\ UNCHANGED <<aux, generated, impl, q, k, knobs>>

\* lines 54-66 as a function of the local variables
ask_select_state(st) ==
  LET coarse_hits == st.coarse_hits
      best_doc == select_best_doc(coarse_hits)
      doc_hits == narrow(coarse_hits, best_doc, st.doc_ctx_chunks)
  IN  Update(st, [doc_counts |-> doc_counts(coarse_hits),
                  best_doc |-> best_doc,
                  doc_hits |-> doc_hits,
                  best_dist |-> min_dist(doc_hits)])

\* lines 68-78
ask_abstain_response(st) ==
  [kind |-> "http", status |-> 200,
   body |-> [answer |-> ABSTAIN_MSG, citations |-> <<>>, abstained |-> TRUE,
             debug |-> [best_dist |-> st.best_dist,
                        hits |-> Len(st.coarse_hits),
                        unique_docs |-> Cardinality(DOMAIN st.doc_counts),
                        selected_doc |-> st.best_doc]]]

\* lines 54-78
ask_select_gate ==
  /\ impl = "ask" /\ pc = "select_doc"
  /\ LET st == ask_select_state(state)
         abstain == gate_abstains(st.best_dist, st.max_cosine_dist,
                                  Len(st.doc_hits), st.min_hits)
     IN  /\ state' = Put(st, "abstain", abstain)
         /\ IF abstain
            THEN /\ stages' = stages \o <<"select_doc", "gate", "abstain_out">>
                 /\ response' = ask_abstain_response(st)
                 /\ pc' = "done"
            ELSE /\ stages' = stages \o <<"select_doc", "gate">>
                 /\ pc' = "reason"
                 /\ UNCHANGED response
  /\ UNCHANGED <<aux, generated, impl, q, k, knobs, calls, raised>>

\* lines 93-107, given the generator's reply
ask_answer_response(st, reply) ==
  [kind |-> "http", status |-> 200,
   body |-> [answer |-> strip(OrEmpty(reply)),
             citations |-> <<[doc_uri |-> st.best_doc]>>,
             debug |-> [best_dist |-> st.best_dist,
                        hits |-> Len(st.coarse_hits),
                        unique_docs |-> Cardinality(DOMAIN st.doc_counts),
                        selected_doc |-> st.best_doc,
                        chunks_used |-> Len(st.doc_hits)]]]

\* lines 81-107
ask_reason ==
  /\ impl = "ask" /\ pc = "reason"
  /\ stages' = Append(stages, "reason")
  /\ calls' = Called("generate")
  /\ \/ /\ \E reply \in GenReplies :
             /\ generated' = reply
             /\ response' = ask_answer_response(state, reply)
        /\ pc' = "done"
        /\ UNCHANGED raised
     \/ /\ Catch("GenerationError")
        /\ UNCHANGED generated
  /\ UNCHANGED <<aux, impl, q, k, knobs, state>>

Next ==
  \/ run_qa_invoke
  \/ embed_node
  \/ retrieve_node
  \/ select_doc_node
  \/ gate_node
  \/ reason_node
  \/ abstain_out_node
  \/ run_qa_return
  \/ ask_begin
  \/ ask_embed
  \/ ask_retrieve
  \/ ask_select_gate
  \/ ask_reason

Spec == Init /\ [][Next]_vars


\* ======================= concurrent run_qa invocations =======================
\* Several callers invoke run_qa at once (graph.py 133-142).  Each invocation
\* builds its own QAState dict; qa_graph itself is compiled once and holds no
\* request data.  The stages of different invocations interleave freely.

NumReqs == 2
ReqIds == 1 .. NumReqs

\* what a collaborator (embed, retrieve_by_embedding, generate_text) gave one
\* invocation: nothing yet, a value, or an exception
Pending == [status |-> "not called", value |-> <<>>]
Ok(v) == [status |-> "ok", value |-> v]
Failed == [status |-> "failed", value |-> <<>>]

ConcQuestion(r) == [i \in 1 .. r |-> "a"]
ConcKnobs ==
  {kn \in Knobs : /\ kn.max_cosine_dist \in {0, Scale}
                  /\ kn.min_hits = 0
                  /\ kn.doc_ctx_chunks = 1}
ConcHitSeqs ==
  {<<>>,
   <<[doc_uri |-> "A", dist |-> 0]>>,
   <<[doc_uri |-> "A", dist |-> Scale], [doc_uri |-> "B", dist |-> Scale + 1],
     [doc_uri |-> "B", dist |-> Scale + 1]>>}
ConcReplies == {None, <<"a", " ">>}

\* the single-request variables while the concurrent specification runs
MainIdle ==
  /\ impl = "run_qa" /\ q = <<>> /\ k = DefaultK
  /\ knobs = [max_cosine_dist |-> 0, min_hits |-> 0, doc_ctx_chunks |-> 1]
  /\ pc = "idle" /\ state = EmptyDict
  /\ calls = [embed |-> 0, retrieve |-> 0, generate |-> 0]
  /\ raised = "none" /\ response = NoResponse /\ stages = <<>>
  /\ generated = NotCalled

main == <<impl, q, k, knobs, pc, state, calls, raised, response, stages, generated>>
db == <<docs, doc_chunks, next_id, outcome, latest>>

InitConc ==
  /\ MainIdle
  /\ DbIdle
  /\ SqsIdle
  /\ reqs \in [ReqIds -> [knobs : ConcKnobs, pc : {"start"}, state : {EmptyDict},
                          emb : {Pending}, hits : {Pending}, reply : {Pending},
                          response : {NoResponse}]]

\* request r moves on: its record becomes rec, nobody else's changes
Own(r, rec) ==
  /\ reqs' = [reqs EXCEPT ![r] = rec]
  /\ UNCHANGED <<main, db, sqs>>

ConcRaise(rec, e) ==
  [rec EXCEPT !.pc = "done", !.response = [kind |-> "raise", exc |-> e]]

\* run_qa, lines 135-141
conc_invoke(r) ==
  /\ reqs[r].pc = "start"
  /\ Own(r, [reqs[r] EXCEPT
               !.state = [q |-> ConcQuestion(r), k |-> DefaultK,
                          max_cosine_dist |-> reqs[r].knobs.max_cosine_dist,
                          min_hits |-> reqs[r].knobs.min_hits,
                          doc_ctx_chunks |-> reqs[r].knobs.doc_ctx_chunks],
               !.pc = "embed"])

conc_embed(r) ==
  /\ reqs[r].pc = "embed"
  /\ \/ Own(r, [reqs[r] EXCEPT
                  !.emb = Ok("emb"),
                  !.state = Put(Put(@, "query_emb", "emb"),
                                "coarse_k", Max(Get(@, "k", DefaultK), MinCoarseK)),
                  !.pc = "retrieve"])
     \/ Own(r, ConcRaise([reqs[r] EXCEPT !.emb = Failed], "EmbeddingError"))

\* the retrieve stage writing into one state dict shared by all invocations
conc_retrieve_shared(r) ==
  /\ reqs[r].pc = "retrieve"
  /\ \E hs \in ConcHitSeqs :
       /\ reqs' = [o \in ReqIds |->
                     IF o = r
                     THEN [reqs[o] EXCEPT !.hits = Ok(hs), !.pc = "select_doc",
                                          !.state = Put(@, "coarse_hits", hs)]
                     ELSE IF reqs[o].state = EmptyDict THEN reqs[o]
                     ELSE [reqs[o] EXCEPT !.state = Put(@, "coarse_hits", hs)]]
       /\ UNCHANGED <<main, db, sqs>>

conc_retrieve(r) ==
  /\ reqs[r].pc = "retrieve"
  /\ \/ \E hs \in ConcHitSeqs :
          Own(r, [reqs[r] EXCEPT !.hits = Ok(hs),
                                 !.state = Put(@, "coarse_hits", hs),
                                 !.pc = "select_doc"])
     \/ Own(r, ConcRaise([reqs[r] EXCEPT !.hits = Failed], "RetrievalError"))

conc_select_doc(r) ==
  /\ reqs[r].pc = "select_doc"
  /\ Own(r, [reqs[r] EXCEPT !.state = select_doc_state(@), !.pc = "gate"])

conc_gate(r) ==
  /\ reqs[r].pc = "gate"
  /\ Own(r, [reqs[r] EXCEPT !.state = gate_state(@),
                            !.pc = gate_route(gate_state(reqs[r].state))])

conc_reason(r) ==
  /\ reqs[r].pc = "reason"
  /\ \/ /\ "doc_hits" \notin DOMAIN reqs[r].state
        /\ Own(r, ConcRaise(reqs[r], "KeyError"))
     \/ /\ "doc_hits" \in DOMAIN reqs[r].state
        /\ \/ \E reply \in ConcReplies :
                Own(r, [reqs[r] EXCEPT !.reply = Ok(reply),
                                       !.state = reason_state(@, reply),
                                       !.pc = "end"])
           \/ Own(r, ConcRaise([reqs[r] EXCEPT !.reply = Failed], "GenerationError"))

conc_abstain_out(r) ==
  /\ reqs[r].pc = "abstain_out"
  /\ Own(r, [reqs[r] EXCEPT !.state = abstain_out_state(@), !.pc = "end"])

conc_return(r) ==
  /\ reqs[r].pc = "end"
  /\ Own(r, [reqs[r] EXCEPT
               !.response = [kind |-> "return", body |-> run_qa_result(reqs[r].state)],
               !.pc = "done"])

NextConc ==
  \/ \E r \in ReqIds : conc_invoke(r)
  \/ \E r \in ReqIds : conc_embed(r)
  \/ \E r \in ReqIds : conc_retrieve(r)
  \/ \E r \in ReqIds : conc_select_doc(r)
  \/ \E r \in ReqIds : conc_gate(r)
  \/ \E r \in ReqIds : conc_reason(r)
  \/ \E r \in ReqIds : conc_abstain_out(r)
  \/ \E r \in ReqIds : conc_return(r)

SpecConc == InitConc /\ [][NextConc]_vars

\* ======================= app/retrieval.py: the write path =======================
\* upsert_doc_and_chunks against the tables docs (doc_uri UNIQUE) and
\* doc_chunks of db_init_handler.SCHEMA_SQL.  The call runs in one
\* transaction: "with _conn() as conn" commits on a normal exit and rolls
\* back on an exception, so a call takes effect whole or not at all (values
\* drawn from the sequences are not given back by a rollback).

MaxCalls == 2       \* most upsert calls that reach the database
MaxChunks == 2      \* most chunks of one call

DocUris == {"s3://b/1", "s3://b/2"}
Previews == {"p1", "p2"}
Metas == {"m1"}
ChunkTexts == {"c1", "c2"}
Embeddings == {"e1", "e2"}
ChunkLists == UNION {[1 .. n -> ChunkTexts] : n \in 0 .. MaxChunks}
EmbeddingLists == UNION {[1 .. n -> Embeddings] : n \in 0 .. MaxChunks}
UpsertArgs ==
  [doc_uri : DocUris, preview : Previews, chunks : ChunkLists,
   embeddings : EmbeddingLists, meta : Metas]

InitDb ==
  /\ MainIdle
  /\ ConcIdle
  /\ DbIdle
  /\ SqsIdle

\* INSERT INTO docs ... ON CONFLICT (doc_uri) DO UPDATE SET preview, meta
upsert_doc_row(rows, new_id, a) ==
  IF \E row \in rows : row.doc_uri = a.doc_uri
  THEN {IF row.doc_uri = a.doc_uri
        THEN [row EXCEPT !.preview = a.preview, !.meta = a.meta]
        ELSE row : row \in rows}
  ELSE rows \cup {[id |-> new_id, doc_uri |-> a.doc_uri, preview |-> a.preview,
                   meta |-> a.meta]}

\* RETURNING id
doc_id_of(rows, uri) == (CHOOSE row \in rows : row.doc_uri = uri).id

\* for ch, emb in zip(chunks, embeddings): INSERT INTO doc_chunks ...
inserted_chunks(doc_id, first_id, a) ==
  {[id |-> first_id + i - 1, doc_id |-> doc_id, chunk |-> a.chunks[i],
    embedding |-> a.embeddings[i], meta |-> a.meta] :
     i \in 1 .. Min(Len(a.chunks), Len(a.embeddings))}

\* the inserts without the DELETE before them: old chunks stay
replace_chunks_accumulating(rows, doc_id, first_id, a) ==
  rows \cup inserted_chunks(doc_id, first_id, a)

\* DELETE FROM doc_chunks WHERE doc_id = %s, then the inserts
replace_chunks(rows, doc_id, first_id, a) ==
  {row \in rows : row.doc_id # doc_id} \cup inserted_chunks(doc_id, first_id, a)

\* line 89: the arguments are refused before the database is touched
upsert_value_error ==
  /\ \E n_chunks, n_embeddings \in 0 .. MaxChunks :
       /\ n_chunks # n_embeddings
       /\ outcome' = [kind |-> "raise", exc |-> "ValueError"]
  /\ UNCHANGED <<main, reqs, docs, doc_chunks, next_id, latest, sqs>>

\* lines 92-123, the transaction committing
upsert_doc_and_chunks ==
  /\ next_id.docs <= MaxCalls
  /\ \E a \in UpsertArgs :
       /\ Len(a.chunks) = Len(a.embeddings)
       /\ LET rows == upsert_doc_row(docs, next_id.docs, a)
              doc_id == doc_id_of(rows, a.doc_uri)
          IN  /\ docs' = rows
              /\ doc_chunks' = replace_chunks(doc_chunks, doc_id, next_id.doc_chunks, a)
       /\ next_id' = [docs |-> next_id.docs + 1,
                      doc_chunks |-> next_id.doc_chunks + Len(a.chunks)]
       \* inserted, counted once per INSERT; given is len(chunks) of the call
       /\ outcome' = [kind |-> "return",
                      value |-> Cardinality(inserted_chunks(0, next_id.doc_chunks, a)),
                      given |-> Len(a.chunks)]
       /\ latest' = Put(latest, a.doc_uri, a)
  /\ UNCHANGED <<main, reqs, sqs>>

\* lines 92-123, a statement or the connection failing: the transaction is
\* rolled back, the sequence values drawn so far are spent
upsert_db_error ==
  /\ next_id.docs <= MaxCalls
  /\ \E n_chunks \in 0 .. MaxChunks, doc_drawn \in 0 .. 1,
        chunks_drawn \in 0 .. MaxChunks :
       /\ chunks_drawn <= n_chunks
       /\ doc_drawn = 0 => chunks_drawn = 0
       /\ next_id' = [docs |-> next_id.docs + doc_drawn,
                      doc_chunks |-> next_id.doc_chunks + chunks_drawn]
       /\ outcome' = [kind |-> "raise", exc |-> "DatabaseError"]
  /\ UNCHANGED <<main, reqs, docs, doc_chunks, latest, sqs>>

NextDb ==
  \/ upsert_value_error
  \/ upsert_doc_and_chunks
  \/ upsert_db_error

SpecDb == InitDb /\ [][NextDb]_vars

\* ======================= app/ingest_handler.py: SQS batch mode =======================
\* handler(event, context) on an event whose Records came from SQS (lines
\* 210-237).  Each SQS record carries a messageId, unique within the batch,
\* and a body; a body that parses is an S3 event holding inner records.  What
\* an inner record leads to is named by its kind, in the order the loop body
\* tests it (lines 221-231):
\*   "not_s3"      eventSource is not aws:s3: skipped
\*   "malformed"   r["s3"]["bucket"]["name"] or the key is missing: KeyError
\*   "not_created" eventName is not ObjectCreated:*: skipped
\*   "directory"   the key ends with "/": skipped
\*   "ok"          process_one_s3_object returns (ingested or skipped)
\*   "raise"       process_one_s3_object raises

MaxMsgs == 2        \* most SQS records in one batch
MaxInner == 2       \* most inner S3 records in one message body

MessageIds == 1 .. MaxMsgs
InnerKinds == {"not_s3", "malformed", "not_created", "directory", "ok", "raise"}
\* a body json.loads refuses
BadJson == <<"bad json">>
Bodies == {BadJson} \cup UNION {[1 .. n -> InnerKinds] : n \in 0 .. MaxInner}
IdSeqs(n) == {ids \in [1 .. n -> MessageIds] : \A i, j \in 1 .. n : ids[i] = ids[j] => i = j}
\* event["Records"]
SqsBatch(ids, bs) == [i \in DOMAIN ids |-> [messageId |-> ids[i], body |-> bs[i]]]

InitSqs ==
  /\ MainIdle
  /\ ConcIdle
  /\ DbIdle
  /\ \E n \in 1 .. MaxMsgs :
       \E ids \in IdSeqs(n), bs \in [1 .. n -> Bodies] :
         sqs = [pc |-> "start", batch |-> SqsBatch(ids, bs), i |-> 1,
                failures |-> <<>>, processed |-> 0, attempted |-> <<>>,
                result |-> NoResponse]

\* lines 220-231: the inner records of one payload from position j on, n
\* objects processed so far; gives whether an exception left the loop and
\* the value of processed afterwards
RECURSIVE process_payload(_, _, _)
process_payload(body, j, n) ==
  IF j > Len(body) THEN [raised |-> FALSE, processed |-> n]
  ELSE IF body[j] = "not_s3" THEN process_payload(body, j + 1, n)
  ELSE IF body[j] = "malformed" THEN [raised |-> TRUE, processed |-> n]
  ELSE IF body[j] = "not_created" THEN process_payload(body, j + 1, n)
  ELSE IF body[j] = "directory" THEN process_payload(body, j + 1, n)
  ELSE IF body[j] = "raise" THEN [raised |-> TRUE, processed |-> n]
  ELSE process_payload(body, j + 1, n + 1)

\* lines 217-231: the try block for one SQS record
try_record(rec, n) ==
  IF rec.body = BadJson THEN [raised |-> TRUE, processed |-> n]
  ELSE process_payload(rec.body, 1, n)

\* the loop body with the exception leaving the for loop instead of being
\* caught per record: the records after a failing one are not attempted
handle_record_aborting(s) ==
  LET rec == s.batch[s.i]
      r == try_record(rec, s.processed)
  IN  [s EXCEPT !.i = IF r.raised THEN Len(s.batch) + 1 ELSE @ + 1,
                !.attempted = Append(@, rec.messageId),
                !.processed = r.processed,
                !.failures = IF r.raised
                             THEN Append(@, [itemIdentifier |-> rec.messageId])
                             ELSE @]

\* lines 215-234: one pass of "for rec in event['Records']"
handle_record(s) ==
  LET rec == s.batch[s.i]
      r == try_record(rec, s.processed)
  IN  [s EXCEPT !.i = @ + 1,
                !.attempted = Append(@, rec.messageId),
                !.processed = r.processed,
                !.failures = IF r.raised
                             THEN Append(@, [itemIdentifier |-> rec.messageId])
                             ELSE @]

\* lines 210-214
sqs_begin ==
  /\ sqs.pc = "start"
  /\ Len(sqs.batch) > 0
  /\ sqs' = [sqs EXCEPT !.pc = "loop", !.failures = <<>>, !.processed = 0]
  /\ UNCHANGED <<main, reqs, db>>

sqs_record ==
  /\ sqs.pc = "loop"
  /\ sqs.i <= Len(sqs.batch)
  /\ sqs' = handle_record(sqs)
  /\ UNCHANGED <<main, reqs, db>>

\* line 237
sqs_return ==
  /\ sqs.pc = "loop"
  /\ sqs.i > Len(sqs.batch)
  /\ sqs' = [sqs EXCEPT !.pc = "done",
                        !.result = [batchItemFailures |-> sqs.failures, ok |-> TRUE,
                                    processed |-> sqs.processed]]
  /\ UNCHANGED <<main, reqs, db>>

NextSqs ==
  \/ sqs_begin
  \/ sqs_record
  \/ sqs_return

SpecSqs == InitSqs /\ [][NextSqs]_vars

\* ======================= properties =======================

StageSet == Range(stages)
Finished == pc = "done"
\* the caller holds a successful result: run_qa returned, or /ask answered 200
Answered ==
  \/ response.kind = "return"
  \/ response.kind = "http" /\ response.status = 200
Retrieved == "coarse_hits" \in DOMAIN state
NoHits == Retrieved /\ state.coarse_hits = <<>>
\* the abstain branch built the result
AbstainBranch == "abstain_out" \in StageSet
ReasonBranch == "reason" \in StageSet
ExternalErrors == {"EmbeddingError", "RetrievalError", "GenerationError"}

\* the smallest distance among the hits of document d, and their number
HitsFrom(hits, d) == SelectSeq(hits, LAMBDA h : h.doc_uri = d)
TrueMin(hits, d) == min_dist(HitsFrom(hits, d))
Votes(hits, d) == Len(HitsFrom(hits, d))
DocsOf(hits) == {hits[i].doc_uri : i \in DOMAIN hits}

\* C1: a finished request whose coarse retrieval returned zero hits holds a
\* successful abstaining result: the fixed abstain message, no citations and
\* the debug reason "no_hits", whatever the knobs are.
C1_NoHitsAbstains ==
  (Finished /\ NoHits) =>
    /\ Answered
    /\ response.body.answer = ABSTAIN_MSG
    /\ response.body.citations = <<>>
    /\ "reason" \in DOMAIN response.body.debug
    /\ response.body.debug.reason = "no_hits"

\* C2: once a document is selected, no document of the coarse hits has a
\* strictly smaller true minimum distance, and none with the same minimum
\* distance has strictly more hits.
C2_SelectsMinTuple ==
  ("best_doc" \in DOMAIN state) =>
    LET hits == state.coarse_hits
        b == state.best_doc
    IN  \A d \in DocsOf(hits) :
          /\ TrueMin(hits, b) <= TrueMin(hits, d)
          /\ TrueMin(hits, d) = TrueMin(hits, b) => Votes(hits, d) <= Votes(hits, b)

\* C3: after the gate stage has run, abstain is true exactly when
\* best_distance > max_cosine_dist or len(doc_hits) < min_hits, and the
\* request is routed to the abstain branch exactly when abstain is true.
C3_GateIff ==
  ("gate" \in StageSet) =>
    LET best == Get(state, "best_dist", DefaultDist)
        n == Len(Get(state, "doc_hits", <<>>))
        cond == best > knobs.max_cosine_dist \/ n < knobs.min_hits
    IN  /\ state.abstain = cond
        /\ AbstainBranch => cond
        /\ ReasonBranch => ~cond

\* a best_distance exactly equal to max_cosine_dist has passed the gate
C3_Witness ==
  /\ "gate" \in StageSet
  /\ "best_dist" \in DOMAIN state
  /\ state.best_dist = knobs.max_cosine_dist
  /\ state.abstain = FALSE
  /\ ReasonBranch

\* C4: a returned result built by the abstain branch has no citations and
\* the fixed abstain message as its answer.
C4_AbstainShape ==
  (Finished /\ Answered /\ AbstainBranch) =>
    /\ response.body.citations = <<>>
    /\ response.body.answer = ABSTAIN_MSG

C4_Witness ==
  /\ Finished /\ Answered /\ AbstainBranch
  /\ impl = "run_qa"
  /\ "best_doc" \in DOMAIN state

\* C5: a returned result built by the reasoning branch has a non-empty
\* doc_hits, all of whose entries carry the selected document's id.
C5_ReasonHasDocHits ==
  (Finished /\ Answered /\ ~AbstainBranch) =>
    /\ "doc_hits" \in DOMAIN state
    /\ state.doc_hits # <<>>
    /\ \A i \in DOMAIN state.doc_hits : state.doc_hits[i].doc_uri = state.best_doc

\* a reasoning result under min_hits <= 0 and max_cosine_dist >= 1.0, with
\* coarse hits of both documents
C5_Witness ==
  /\ Finished /\ Answered /\ ~AbstainBranch
  /\ knobs.min_hits = 0 /\ knobs.max_cosine_dist >= Scale
  /\ Cardinality(DocsOf(state.coarse_hits)) = 2

GraphOrders ==
  {<<"embed", "retrieve", "select_doc", "gate", "reason">>,
   <<"embed", "retrieve", "select_doc", "gate", "abstain_out">>}
IsPrefix(a, b) == Len(a) <= Len(b) /\ SubSeq(b, 1, Len(a)) = a

\* C6: a request of the graph enters its stages in the order embed, retrieve,
\* select-document, gate, then one of reason and abstain-out, none twice, and
\* a request none of whose external calls failed ends with a result, all five
\* stages run.
C6_OrderAndCompletion ==
  (impl = "run_qa") =>
    /\ \E o \in GraphOrders : IsPrefix(stages, o)
    /\ (Finished /\ raised \notin ExternalErrors) =>
         /\ response.kind = "return"
         /\ stages \in GraphOrders

\* C7: with an empty coarse hit sequence the gate stage is never executed and
\* the request ends in the abstain branch.
C7_NoHitsSkipsGate ==
  NoHits =>
    /\ "gate" \notin StageSet
    /\ Finished => AbstainBranch

\* C8: each collaborator is called at most once, by its own stage only; a
\* result of the reasoning branch comes with exactly one Generator call, and
\* a request in the abstain branch or without hits with none.
C8_GeneratorOnce ==
  /\ calls.embed = (IF "embed" \in StageSet THEN 1 ELSE 0)
  /\ calls.retrieve = (IF "retrieve" \in StageSet THEN 1 ELSE 0)
  /\ calls.generate <= 1
  /\ calls.generate = 1 => ReasonBranch
  /\ (Finished /\ Answered /\ ReasonBranch) => calls.generate = 1
  /\ (AbstainBranch \/ NoHits) => calls.generate = 0

C8_Witness ==
  /\ Finished /\ Answered /\ ReasonBranch
  /\ calls = [embed |-> 1, retrieve |-> 1, generate |-> 1]
  /\ response.body.answer = <<>>

\* C9: every successful result has a boolean field abstained, true exactly
\* when the abstain branch built the result.
C9_AbstainedField ==
  (Finished /\ Answered) =>
    /\ "abstained" \in DOMAIN response.body
    /\ response.body.abstained = AbstainBranch

\* C10: once an external call has failed the request is over: the caller
\* receives that failure (run_qa raises it, /ask answers 500 with it) and no
\* Answer, the failed call was made once, no later stage or call follows;
\* an abstaining Answer only comes from no hits or a failed gate.
C10_FailurePropagates ==
  /\ (raised \in ExternalErrors) =>
       /\ Finished
       /\ ~Answered
       /\ impl = "run_qa" => response = [kind |-> "raise", exc |-> raised]
       /\ impl = "ask" =>
            response = [kind |-> "http", status |-> 500, body |-> [detail |-> raised]]
       /\ raised = "EmbeddingError" =>
            /\ calls = [embed |-> 1, retrieve |-> 0, generate |-> 0]
            /\ stages = <<"embed">>
       /\ raised = "RetrievalError" =>
            /\ calls = [embed |-> 1, retrieve |-> 1, generate |-> 0]
            /\ stages = <<"embed", "retrieve">>
       /\ raised = "GenerationError" =>
            /\ calls = [embed |-> 1, retrieve |-> 1, generate |-> 1]
            /\ stages = <<"embed", "retrieve", "select_doc", "gate", "reason">>
  /\ (Finished /\ Answered /\ AbstainBranch) =>
       /\ raised = "none"
       /\ \/ NoHits
          \/ state.best_dist > knobs.max_cosine_dist
          \/ Len(state.doc_hits) < knobs.min_hits

C10_Witness ==
  /\ raised = "GenerationError"
  /\ impl = "ask"
  /\ response.status = 500

\* the gate's verdict on the narrowed hits of st under other knob values
GateOn(st, max_cosine_dist, min_hits) ==
  gate_abstains(Get(st, "best_dist", DefaultDist), max_cosine_dist,
                Len(Get(st, "doc_hits", <<>>)), min_hits)

\* C11: for the hits and doc_ctx_chunks of a request that passed the gate,
\* the gate also passes under every larger max_cosine_dist and every smaller
\* min_hits: neither change turns a non-abstaining request into an
\* abstaining one.
C11_GateMonotone ==
  ("gate" \in StageSet) =>
    /\ state.abstain = GateOn(state, knobs.max_cosine_dist, knobs.min_hits)
    /\ ~state.abstain =>
         \A m \in Dists, h \in 0 .. MaxMinHits :
           (m >= knobs.max_cosine_dist /\ h <= knobs.min_hits) => ~GateOn(state, m, h)

\* a request that passed the gate and abstains under a smaller threshold
C11_Witness ==
  /\ "gate" \in StageSet
  /\ ~state.abstain
  /\ knobs.min_hits >= 1
  /\ \E m \in Dists : m < knobs.max_cosine_dist /\ GateOn(state, m, knobs.min_hits)

\* a maps the entries of sub one-to-one onto equal entries of whole
Embeds(sub, whole) ==
  \E f \in [DOMAIN sub -> DOMAIN whole] :
    /\ \A i, j \in DOMAIN sub : i # j => f[i] # f[j]
    /\ \A i \in DOMAIN sub : sub[i] = whole[f[i]]

\* C12: after the select stage on non-empty coarse hits every entry of
\* doc_hits is an entry of coarse_hits, none used twice, and every entry
\* carries the selected document's id.
C12_DocHitsSubCollection ==
  ("doc_hits" \in DOMAIN state) =>
    /\ Embeds(state.doc_hits, state.coarse_hits)
    /\ \A i \in DOMAIN state.doc_hits : state.doc_hits[i].doc_uri = state.best_doc

\* a single hit of the selected document beside hits of the other one
C12_Witness ==
  /\ "doc_hits" \in DOMAIN state
  /\ Len(state.doc_hits) = 1
  /\ Len(state.coarse_hits) = 3

\* C13: once retrieval has set coarse_hits no step changes it.
C13_CoarseHitsFrozen ==
  [][Retrieved => (Retrieved' /\ state'.coarse_hits = state.coarse_hits)]_vars

\* a finished request whose narrowing kept fewer hits than were retrieved
C13_Witness ==
  /\ Finished /\ Retrieved
  /\ "doc_hits" \in DOMAIN state
  /\ Len(state.doc_hits) < Len(state.coarse_hits)

\* C14: doc_hits is sorted ascending by distance, holds
\* min(hits of the selected document, max(2, doc_ctx_chunks)) entries, and
\* no hit of the selected document left out is closer than one kept.
C14_NarrowKeepsClosest ==
  ("doc_hits" \in DOMAIN state) =>
    LET own == HitsFrom(state.coarse_hits, state.best_doc)
        n == Len(state.doc_hits)
        cap == IF knobs.doc_ctx_chunks >= 2 THEN knobs.doc_ctx_chunks ELSE 2
    IN  /\ n = (IF Len(own) <= cap THEN Len(own) ELSE cap)
        /\ IsSortedByDist(state.doc_hits)
        /\ Embeds(state.doc_hits, own)
        /\ \A i \in DOMAIN state.doc_hits :
             Cardinality({j \in DOMAIN own : own[j].dist < state.doc_hits[i].dist}) < n

\* doc_ctx_chunks below 2 and three hits of the document: two are kept
C14_Witness ==
  /\ "doc_hits" \in DOMAIN state
  /\ knobs.doc_ctx_chunks = 1
  /\ Len(HitsFrom(state.coarse_hits, state.best_doc)) = 3
  /\ Len(state.doc_hits) = 2
  /\ state.coarse_hits[3].dist > state.coarse_hits[2].dist

\* C15 as stated: a finished request with a non-empty doc_hits returns an
\* Answer that cites a document, and every entry of doc_hits carries it.
C15_DocHitsMatchCitation ==
  (Finished /\ Answered /\ Get(state, "doc_hits", <<>>) # <<>>) =>
    /\ response.body.citations # <<>>
    /\ \A i \in DOMAIN state.doc_hits :
         state.doc_hits[i].doc_uri = response.body.citations[1].doc_uri

\* C15 amended: every document the returned Answer cites is the document of
\* every entry of doc_hits; an Answer of the reasoning branch cites exactly
\* one document, an abstaining Answer none.
C15_CitedDocMatchesDocHits ==
  (Finished /\ Answered) =>
    LET cites == response.body.citations
        dh == Get(state, "doc_hits", <<>>)
    IN  /\ \A c \in DOMAIN cites, i \in DOMAIN dh : dh[i].doc_uri = cites[c].doc_uri
        /\ ReasonBranch => Len(cites) = 1 /\ dh # <<>>
        /\ AbstainBranch => cites = <<>>

\* a reasoning Answer whose document is not the one of the top coarse hit
C15_Witness ==
  /\ Finished /\ Answered /\ ReasonBranch
  /\ state.coarse_hits[1].doc_uri # state.best_doc
  /\ response.body.citations = <<[doc_uri |-> state.best_doc]>>

\* C19: narrowing the narrowed hits again, for the same document and
\* doc_ctx_chunks, gives the same doc_hits as narrowing the coarse hits once.
C19_NarrowIdempotent ==
  ("doc_hits" \in DOMAIN state) =>
    narrow(state.doc_hits, state.best_doc, knobs.doc_ctx_chunks) = state.doc_hits

\* a narrowing that truncated, to two entries of different distance
C19_Witness ==
  /\ "doc_hits" \in DOMAIN state
  /\ Len(state.doc_hits) = 2
  /\ Len(state.coarse_hits) = 3
  /\ state.doc_hits[1].dist < state.doc_hits[2].dist

\* t is r without its leading and trailing spaces
IsTrimOf(t, r) ==
  /\ t # <<>> => t[1] # " " /\ t[Len(t)] # " "
  /\ \E a \in 0 .. Len(r) :
       /\ a + Len(t) <= Len(r)
       /\ \A i \in 1 .. Len(r) :
            IF i > a /\ i <= a + Len(t) THEN r[i] = t[i - a] ELSE r[i] = " "

\* C16: a result of the reasoning branch has the Generator's reply, trimmed
\* of surrounding whitespace, as its answer (the empty text when the
\* Generator returned None), and exactly one citation, of the selected
\* document.
C16_TrimmedAnswerOneCitation ==
  (Finished /\ Answered /\ ReasonBranch) =>
    /\ generated # NotCalled
    /\ IsTrimOf(response.body.answer, IF generated = None THEN <<>> ELSE generated)
    /\ response.body.citations = <<[doc_uri |-> state.best_doc]>>

\* a reply with a trailing space, answered without it
C16_Witness ==
  /\ Finished /\ Answered /\ ReasonBranch
  /\ generated = <<"a", " ">>
  /\ response.body.answer = <<"a">>

\* what run_qa hands its caller when it runs alone with question qq, knobs kn
\* and the collaborator responses emb, hits and reply
RunAlone(qq, kn, emb, hits, reply) ==
  LET st0 == [q |-> qq, k |-> DefaultK,
              max_cosine_dist |-> kn.max_cosine_dist,
              min_hits |-> kn.min_hits,
              doc_ctx_chunks |-> kn.doc_ctx_chunks]
      st1 == Put(Put(st0, "query_emb", emb.value), "coarse_k", MinCoarseK)
      st2 == gate_state(select_doc_state(Put(st1, "coarse_hits", hits.value)))
  IN  IF emb.status = "failed" THEN [kind |-> "raise", exc |-> "EmbeddingError"]
      ELSE IF hits.status = "failed" THEN [kind |-> "raise", exc |-> "RetrievalError"]
      ELSE IF st2.abstain
           THEN [kind |-> "return", body |-> run_qa_result(abstain_out_state(st2))]
      ELSE IF "doc_hits" \notin DOMAIN st2 THEN [kind |-> "raise", exc |-> "KeyError"]
      ELSE IF reply.status = "failed" THEN [kind |-> "raise", exc |-> "GenerationError"]
      ELSE [kind |-> "return", body |-> run_qa_result(reason_state(st2, reply.value))]

\* C17: under every interleaving of concurrent run_qa invocations, the
\* state of each invocation holds its own question and its own retrieved
\* hits, and each finished invocation hands back what it would hand back
\* alone on the same collaborator responses.
C17_RequestsIndependent ==
  \A r \in DOMAIN reqs :
    /\ reqs[r].state # EmptyDict => reqs[r].state.q = ConcQuestion(r)
    /\ "coarse_hits" \in DOMAIN reqs[r].state =>
         /\ reqs[r].hits.status = "ok"
         /\ reqs[r].state.coarse_hits = reqs[r].hits.value
    /\ reqs[r].pc = "done" =>
         reqs[r].response =
           RunAlone(ConcQuestion(r), reqs[r].knobs, reqs[r].emb, reqs[r].hits,
                    reqs[r].reply)

\* invocation 1 has returned an answer while invocation 2, which retrieved
\* different hits, is still between its stages
C17_Witness ==
  /\ DOMAIN reqs = ReqIds
  /\ reqs[1].pc = "done" /\ reqs[2].pc = "gate"
  /\ reqs[1].response.kind = "return"
  /\ reqs[2].hits.value # reqs[1].hits.value
  /\ reqs[1].reply = Ok(<<"a", " ">>)

\* the chunk rows of the document with doc_uri u, in the order of their ids
RECURSIVE RowsById(_)
RowsById(rows) ==
  IF rows = {} THEN <<>>
  ELSE LET first == CHOOSE x \in rows : \A y \in rows : x.id <= y.id
       IN  <<first>> \o RowsById(rows \ {first})

StoredChunks(drows, crows, u) ==
  LET ids == {row.id : row \in {x \in drows : x.doc_uri = u}}
      own == RowsById({row \in crows : row.doc_id \in ids})
  IN  [i \in DOMAIN own |->
         [chunk |-> own[i].chunk, embedding |-> own[i].embedding, meta |-> own[i].meta]]

\* what is stored, row ids aside
Stored(drows, crows) ==
  [u \in {row.doc_uri : row \in drows} |->
     [previews |-> {row.preview : row \in {x \in drows : x.doc_uri = u}},
      metas |-> {row.meta : row \in {x \in drows : x.doc_uri = u}},
      chunks |-> StoredChunks(drows, crows, u)]]

GivenChunks(a) ==
  [i \in DOMAIN a.chunks |->
     [chunk |-> a.chunks[i], embedding |-> a.embeddings[i], meta |-> a.meta]]

\* C20: after any sequence of upsert_doc_and_chunks calls there is one docs
\* row per doc_uri upserted, holding the preview and meta of its last
\* successful call, the chunks stored for it are exactly the chunks of that
\* call, every chunk row belongs to a docs row, making the same call again
\* leaves what is stored unchanged, and a call that returns returns the
\* number of chunks it was given.
C20_UpsertReplaces ==
  /\ {row.doc_uri : row \in docs} = DOMAIN latest
  /\ \A u \in DOMAIN latest :
       /\ Cardinality({row \in docs : row.doc_uri = u}) = 1
       /\ Stored(docs, doc_chunks)[u] =
            [previews |-> {latest[u].preview}, metas |-> {latest[u].meta},
             chunks |-> GivenChunks(latest[u])]
       /\ LET rows == upsert_doc_row(docs, next_id.docs, latest[u])
              again == replace_chunks(doc_chunks, doc_id_of(rows, u),
                                      next_id.doc_chunks, latest[u])
          IN  Stored(rows, again) = Stored(docs, doc_chunks)
  /\ \A row \in doc_chunks : \E d \in docs : d.id = row.doc_id
  /\ outcome.kind = "return" => outcome.value = outcome.given

\* a document upserted twice, the second time with fewer chunks
C20_Witness ==
  /\ next_id.docs = 3
  /\ Cardinality(docs) = 1
  /\ Cardinality(doc_chunks) = 1
  /\ next_id.doc_chunks = 4
  /\ outcome.kind = "return"

\* the processing of a message raises when its body does not parse or one of
\* its inner records is malformed or fails in process_one_s3_object
Raises(body) ==
  \/ body = BadJson
  \/ \E j \in DOMAIN body : body[j] \in {"malformed", "raise"}

Occurrences(seq, x) == Cardinality({i \in DOMAIN seq : seq[i] = x})

\* C21: in SQS batch mode every message of the batch is attempted, in order,
\* whatever happened to the messages before it, and the returned
\* batchItemFailures holds the messageId of each message whose processing
\* raised exactly once and nothing else.
C21_BatchItemFailures ==
  sqs.pc = "done" =>
    /\ sqs.attempted = [i \in DOMAIN sqs.batch |-> sqs.batch[i].messageId]
    /\ \A i \in DOMAIN sqs.batch :
         Occurrences(sqs.result.batchItemFailures,
                     [itemIdentifier |-> sqs.batch[i].messageId])
           = IF Raises(sqs.batch[i].body) THEN 1 ELSE 0
    /\ \A f \in Range(sqs.result.batchItemFailures) :
         \E i \in DOMAIN sqs.batch : f = [itemIdentifier |-> sqs.batch[i].messageId]

\* a batch of two whose first message raised and whose second was processed
C21_Witness ==
  /\ sqs.pc = "done"
  /\ Len(sqs.batch) = 2
  /\ sqs.batch[1].body = <<"ok", "raise">>
  /\ sqs.batch[2].body = <<"ok">>
  /\ sqs.result.batchItemFailures = <<[itemIdentifier |-> sqs.batch[1].messageId]>>
  /\ sqs.result.processed = 2

\* what /ask answers when it runs alone on question qq with knobs kn, the
\* coarse hits hits and the generator's reply (main.py 29-107), and the
\* branch it takes
AskState(qq, kn, hits) ==
  ask_select_state([q |-> strip(qq), k |-> DefaultK,
                    max_cosine_dist |-> kn.max_cosine_dist,
                    min_hits |-> kn.min_hits,
                    coarse_k |-> Max(DefaultK, MinCoarseK),
                    doc_ctx_chunks |-> kn.doc_ctx_chunks,
                    emb |-> "emb", coarse_hits |-> hits])
AskAbstains(qq, kn, hits) ==
  \/ hits = <<>>
  \/ LET st == AskState(qq, kn, hits)
     IN  gate_abstains(st.best_dist, st.max_cosine_dist, Len(st.doc_hits), st.min_hits)
AskAlone(qq, kn, hits, reply) ==
  IF hits = <<>> THEN ask_no_hits_response
  ELSE IF AskAbstains(qq, kn, hits) THEN ask_abstain_response(AskState(qq, kn, hits))
  ELSE ask_answer_response(AskState(qq, kn, hits), reply)

\* the branch run_qa takes alone on the same inputs (graph.py 43-74, 125)
RunQaAbstains(qq, kn, hits) ==
  gate_state(select_doc_state([q |-> qq, k |-> DefaultK,
                               max_cosine_dist |-> kn.max_cosine_dist,
                               min_hits |-> kn.min_hits,
                               doc_ctx_chunks |-> kn.doc_ctx_chunks,
                               query_emb |-> "emb", coarse_k |-> MinCoarseK,
                               coarse_hits |-> hits])).abstain

\* the other pipeline on the inputs of the finished request
OtherAbstains ==
  IF impl = "run_qa" THEN AskAbstains(q, knobs, state.coarse_hits)
  ELSE RunQaAbstains(q, knobs, state.coarse_hits)
OtherResponse ==
  IF impl = "run_qa" THEN AskAlone(q, knobs, state.coarse_hits, generated)
  ELSE RunAlone(q, knobs, Ok("emb"), Ok(state.coarse_hits), Ok(generated))

\* C22: a request that finished in one pipeline (run_qa or /ask) without an
\* external call failing took the branch the other pipeline takes on the
\* same question, coarse hits, generator output and knobs, and the two
\* results have the same keys, the same answer and the same citations; this
\* includes empty coarse hits.
C22_PipelinesEquivalent ==
  (Finished /\ Retrieved /\ raised \notin ExternalErrors) =>
    /\ AbstainBranch = OtherAbstains
    /\ Answered
    /\ OtherResponse.kind \in {"return", "http"}
    /\ DOMAIN response.body = DOMAIN OtherResponse.body
    /\ response.body.answer = OtherResponse.body.answer
    /\ response.body.citations = OtherResponse.body.citations

\* what remains of C22 between the two pipelines: whenever both hand back a
\* result they took the same branch and agree on answer and citations
C22_SameAnswerWhenBothReturn ==
  (Finished /\ Retrieved /\ raised \notin ExternalErrors
     /\ Answered /\ OtherResponse.kind \in {"return", "http"}) =>
    /\ AbstainBranch = OtherAbstains
    /\ response.body.answer = OtherResponse.body.answer
    /\ response.body.citations = OtherResponse.body.citations

\* the select-document stage has run on non-empty coarse hits
Selected == Retrieved /\ state.coarse_hits # <<>> /\ "best_dist" \in DOMAIN state

\* C23: after the select-document stage on non-empty coarse hits,
\* best_distance is the smallest distance among all coarse hits, whichever
\* document they belong to, and it is the min_distance under which the
\* selected document was ranked, for distances anywhere in [0,2].
C23_BestDistanceIsGlobalMin ==
  Selected =>
    LET hits == state.coarse_hits
    IN  /\ \A i \in DOMAIN hits : state.best_dist <= hits[i].dist
        /\ \E i \in DOMAIN hits : state.best_dist = hits[i].dist
        /\ state.best_dist = doc_min(hits)[state.best_doc]

\* what remains of C23 when no hit is farther than 1.0
C23_GlobalMinUpToOne ==
  (Selected /\ \A i \in DOMAIN state.coarse_hits : state.coarse_hits[i].dist <= Scale) =>
    LET hits == state.coarse_hits
    IN  /\ \A i \in DOMAIN hits : state.best_dist <= hits[i].dist
        /\ \E i \in DOMAIN hits : state.best_dist = hits[i].dist
        /\ state.best_dist = doc_min(hits)[state.best_doc]

\* the rearrangements of a hit sequence
Rearrangements(hits) ==
  {[i \in DOMAIN hits |-> hits[p[i]]] :
     p \in {f \in [DOMAIN hits -> DOMAIN hits] :
              \A i, j \in DOMAIN hits : f[i] = f[j] => i = j}}

\* documents d and e are ranked alike: same min_distance as the selection
\* computes it, same vote_count
FullTie(hits, d, e) ==
  /\ doc_min(hits)[d] = doc_min(hits)[e]
  /\ doc_counts(hits)[d] = doc_counts(hits)[e]

\* the position of the first hit of document d
FirstHit(hits, d) == CHOOSE i \in DOMAIN hits :
  /\ hits[i].doc_uri = d
  /\ \A j \in 1 .. i - 1 : hits[j].doc_uri # d

C25_MinHitsExtremes ==
  /\ "doc_hits" \in DOMAIN state =>
       Len(state.doc_hits) <= Max(MinCtx, knobs.doc_ctx_chunks)
  /\ (Finished /\ Retrieved /\ raised \notin ExternalErrors
        /\ knobs.min_hits > Max(MinCtx, knobs.doc_ctx_chunks)) =>
       /\ Answered
       /\ AbstainBranch /\ ~ReasonBranch
       /\ response.body.answer = ABSTAIN_MSG
       /\ response.body.citations = <<>>
  /\ ("gate" \in StageSet /\ knobs.min_hits <= 1 /\ ~NoHits) =>
       /\ Len(state.doc_hits) >= knobs.min_hits
       /\ state.abstain = (state.best_dist > knobs.max_cosine_dist)
       /\ AbstainBranch => state.best_dist > knobs.max_cosine_dist
       /\ ReasonBranch => state.best_dist <= knobs.max_cosine_dist

\* three hits of one document at distance 0 under the widest threshold, and
\* the request abstained because min_hits is 3 while doc_hits holds 2
C25_Witness ==
  /\ Finished /\ Answered /\ AbstainBranch
  /\ knobs.min_hits = 3 /\ knobs.doc_ctx_chunks = 1
  /\ knobs.max_cosine_dist = 2 * Scale
  /\ Len(state.coarse_hits) = 3
  /\ \A i \in DOMAIN state.coarse_hits :
       state.coarse_hits[i] = [doc_uri |-> "A", dist |-> 0]
  /\ Len(state.doc_hits) = 2

====
